---- MODULE Spec2Model ----
(***************************************************************************)
(* Wallet ledger backend (src/main.py, src/schemas.py): register, top-up,  *)
(* transfer, get_wallet and list_transactions over a document store with   *)
(* the collections "user", "wallet" and "transaction".                     *)
(*                                                                         *)
(* Every store call (find_one, find, update_one, insert) is one atomic     *)
(* step.  A request is the sequence of its handler's store calls; each     *)
(* action is the handler's code up to and including one store call, and    *)
(* the steps of concurrent requests interleave freely (Spec).  SeqSpec     *)
(* serves one request at a time; FaultSpec does so over a store whose      *)
(* calls may raise.                                                        *)
(*                                                                         *)
(* Amounts are whole currency units (floats holding small integers are     *)
(* exact); phones are sequences of one-character strings.                  *)
(***************************************************************************)
EXTENDS Integers, Sequences, FiniteSets, TLC

VARIABLES user, wallet, transaction, pc, req, last, base, entered, faults, completed, norm

vars == <<user, wallet, transaction, pc, req, last, base, entered, faults, completed, norm>>

\* ---------------------------------------------------------------- bounds
\* Registrations are accepted while fewer than MaxUsers users are stored and
\* money movements while fewer than MaxTx ledger records are stored; requests
\* already in flight still complete.
MaxUsers == 2

MaxTx == 2

\* At most MaxOverlap requests enter between two moments at which no request
\* is in flight.
MaxOverlap == 2

\* At most MaxFaults store calls fail.
MaxFaults == 1

\* ---------------------------------------------------------------- inputs
\* Request slots; an entering request takes the lowest free slot.
Procs == {1, 2}

PhoneA_local == <<"0","7","1","2","3","4","5","6","7","8">>
PhoneA_intl  == <<" ","+","2","5","4"," ","7","1","2","3","4","5","6","7","8">>
PhoneA_bare  == <<"2","5","4","7","1","2","3","4","5","6","7","8">>
PhoneB_bare  == <<"2","5","4","7","2","2","0","0","0","0","0","0">>

RawPhones == {PhoneA_local, PhoneA_intl, PhoneA_bare, PhoneB_bare}

Amounts == {-1, 0, 1, 2}

\* Phones and amounts of the requests that run concurrently.
ConcurrentPhones == {PhoneA_local, PhoneB_bare}

ConcurrentAmounts == {0, 1}

Limits == {0, 1, 20}

\* ------------------------------------------------------- normalize_phone
Whitespace == {" ", "\t", "\n"}

RECURSIVE lstrip(_)
lstrip(s) == IF s # <<>> /\ Head(s) \in Whitespace THEN lstrip(Tail(s)) ELSE s

RECURSIVE rstrip(_)
rstrip(s) ==
  IF s # <<>> /\ s[Len(s)] \in Whitespace THEN rstrip(SubSeq(s, 1, Len(s) - 1)) ELSE s

\* strip that leaves the trailing whitespace
strip_left_only(s) == lstrip(s)

strip(s) == rstrip(lstrip(s))

\* replace that removes nothing
remove_spaces_none(s) == s

RECURSIVE remove_spaces(_)
remove_spaces(s) ==
  IF s = <<>> THEN <<>>
  ELSE IF Head(s) = " " THEN remove_spaces(Tail(s))
  ELSE <<Head(s)>> \o remove_spaces(Tail(s))

startswith(s, prefix) ==
  Len(s) >= Len(prefix) /\ SubSeq(s, 1, Len(prefix)) = prefix

\* normalize_phone whose local-form rule leaves out the "+"
normalize_phone_no_plus(phone) ==
  LET p == remove_spaces(strip(phone))
  IN  IF startswith(p, <<"+","2","5","4">>) THEN p
      ELSE IF startswith(p, <<"0","7">>) /\ Len(p) = 10 THEN <<"2","5","4">> \o Tail(p)
      ELSE IF startswith(p, <<"2","5","4">>) /\ Len(p) = 12 THEN <<"+">> \o p
      ELSE p

normalize_phone(phone) ==
  LET p == remove_spaces(strip(phone))
  IN  IF startswith(p, <<"+","2","5","4">>) THEN p
      ELSE IF startswith(p, <<"0","7">>) /\ Len(p) = 10 THEN <<"+","2","5","4">> \o Tail(p)
      ELSE IF startswith(p, <<"2","5","4">>) /\ Len(p) = 12 THEN <<"+">> \o p
      ELSE p

\* ----------------------------------------------------------- the store
None == <<"None">>

NoDoc == [id |-> 0, user_id |-> 0, phone |-> None, currency |-> "KES", balance |-> 0]

\* ObjectIds are unique within a collection and documents are never
\* deleted, so a document's position in its collection names it.  The same
\* position is the creation time create_document records.
NextId(coll) == Len(coll) + 1

\* collection.find_one({"phone": phone}): the first matching document in
\* natural order, or None.
find_one(coll, phone) ==
  LET hits == {i \in DOMAIN coll : coll[i].phone = phone}
  IN  IF hits = {} THEN NoDoc
      ELSE coll[CHOOSE i \in hits : \A j \in hits : i <= j]

\* update_one({"_id": id}, {"$set": {"balance": v}})
update_set(coll, id, v) ==
  [i \in DOMAIN coll |-> IF coll[i].id = id THEN [coll[i] EXCEPT !.balance = v] ELSE coll[i]]

\* update_inc with "$set" written for "$inc"
update_inc_as_set(coll, id, d) ==
  [i \in DOMAIN coll |-> IF coll[i].id = id THEN [coll[i] EXCEPT !.balance = d] ELSE coll[i]]

\* update_one({"_id": id}, {"$inc": {"balance": d}})
update_inc(coll, id, d) ==
  [i \in DOMAIN coll |-> IF coll[i].id = id THEN [coll[i] EXCEPT !.balance = @ + d] ELSE coll[i]]

\* create_document(collection, model): an unconditional insert; the caller
\* builds the document with NextId(coll) as its id and creation time.
create_document(coll, doc) == Append(coll, doc)

\* Wallet that opens with a balance of 1
Wallet_funded(id, user_id, phone) ==
  [id |-> id, user_id |-> user_id, phone |-> phone, currency |-> "KES", balance |-> 1]

Wallet(id, user_id, phone) ==
  [id |-> id, user_id |-> user_id, phone |-> phone, currency |-> "KES", balance |-> 0]

User(id, phone) == [id |-> id, phone |-> phone, is_active |-> TRUE]

\* Transaction with the two phones exchanged
Transaction_swapped(id, type, from, to, amount) ==
  [id |-> id, type |-> type, from_phone |-> to, to_phone |-> from,
   amount |-> amount, status |-> "success", created_at |-> id]

Transaction(id, type, from, to, amount) ==
  [id |-> id, type |-> type, from_phone |-> from, to_phone |-> to,
   amount |-> amount, status |-> "success", created_at |-> id]

\* ------------------------------------------------------- request state
\* pc[p] names the store call request p is about to make; req[p] holds the
\* handler's locals.  last is the request that has just returned (the step
\* before was its return); base is the store as it stood when a
\* request last entered while no other was in flight.
NoReq == [op |-> "none", phone |-> None, to_phone |-> None, src |-> None, dst |-> None,
          amount |-> 0, limit |-> 0, user_id |-> 0, w_src |-> NoDoc, w_dst |-> NoDoc]

NoLast == [req |-> NoReq, status |-> "none", at |-> "none", balance |-> 0, out |-> <<>>]

Free(p) == pc[p] = "idle"

Quiet == \A q \in Procs : Free(q)

Snapshot == [wallet |-> wallet, nuser |-> Len(user), ntx |-> Len(transaction)]

\* A request enters its handler.
Enter(p) ==
  /\ Free(p)
  /\ \A q \in Procs : q < p => ~Free(q)
  /\ Quiet \/ entered < MaxOverlap
  /\ base' = IF Quiet THEN Snapshot ELSE base
  /\ entered' = IF Quiet THEN 1 ELSE entered + 1

\* The handler goes on to the store call named label with locals r.
Goto(p, r, label) ==
  /\ pc' = [pc EXCEPT ![p] = label]
  /\ req' = [req EXCEPT ![p] = r]
  /\ last' = NoLast
  /\ UNCHANGED <<completed, norm>>

\* The handler ends: raise HTTPException(...) or return {...}.  completed
\* counts the top-ups and transfers that returned {"status": "ok", ...}.
Finish(p, r, status, at, balance, out) ==
  /\ pc' = [pc EXCEPT ![p] = "idle"]
  /\ req' = [req EXCEPT ![p] = NoReq]
  /\ last' = [req |-> r, status |-> status, at |-> at, balance |-> balance, out |-> out]
  /\ completed' = IF status = "ok" /\ r.op \in {"topup", "transfer"}
                  THEN completed + 1 ELSE completed
  /\ UNCHANGED norm

Fail(p, r, status, at) == Finish(p, r, status, at, 0, <<>>)

\* norm is one call of normalize_phone on a phone as typed (raw) and a
\* second call on its result; number is the subscriber number raw was
\* written from, form the way it was written, mid the whitespace put into
\* it, spaces_only whether the only whitespace put around and into it is the
\* space character.
NoNorm == [number |-> <<>>, form |-> "none", mid |-> <<>>, spaces_only |-> TRUE,
           raw |-> <<>>, once |-> <<>>, twice |-> <<>>, step |-> 0]

EmptyStore ==
  /\ user = <<>>
  /\ wallet = <<>>
  /\ transaction = <<>>
  /\ pc = [p \in Procs |-> "idle"]
  /\ req = [p \in Procs |-> NoReq]
  /\ last = NoLast
  /\ base = [wallet |-> <<>>, nuser |-> 0, ntx |-> 0]
  /\ entered = 0
  /\ faults = 0
  /\ completed = 0

Init == EmptyStore /\ norm = NoNorm

\* ------------------------------------------------------------- register
\* Each action is the handler's code up to and including one store call.
\* already_registered that looks the wallet up under the phone as typed
already_registered_raw(coll, phone) == find_one(coll, phone) # NoDoc

\* existing = db["wallet"].find_one({"phone": phone_norm}); if existing: ...
already_registered(coll, phone) == find_one(coll, normalize_phone(phone)) # NoDoc

register_find(p, phone) ==
  /\ Len(user) < MaxUsers
  /\ Enter(p)
  /\ LET phone_norm == normalize_phone(phone)
         r == [NoReq EXCEPT !.op = "register", !.phone = phone, !.src = phone_norm]
     IN  IF already_registered(wallet, phone)
         THEN Fail(p, r, "DuplicateKey", "reg_find")
         ELSE Goto(p, r, "reg_user")
  /\ UNCHANGED <<user, wallet, transaction, faults>>

register_create_user(p) ==
  /\ pc[p] = "reg_user"
  /\ user' = create_document(user, User(NextId(user), req[p].src))
  /\ Goto(p, [req[p] EXCEPT !.user_id = NextId(user)], "reg_wallet")
  /\ UNCHANGED <<wallet, transaction, base, entered, faults>>

register_create_wallet(p) ==
  /\ pc[p] = "reg_wallet"
  /\ wallet' = create_document(wallet, Wallet(NextId(wallet), req[p].user_id, req[p].src))
  /\ Finish(p, req[p], "ok", pc[p], 0, <<>>)
  /\ UNCHANGED <<user, transaction, base, entered, faults>>

\* --------------------------------------------------------------- top-up
\* invalid_amount with "<" written for "<="
invalid_amount_strict(amount) == amount < 0

invalid_amount(amount) == amount <= 0

\* topup_new_balance that forgets the balance read
topup_new_balance_amount_only(wal, amount) == amount

topup_new_balance(wal, amount) == wal.balance + amount

topup_find(p, phone, amount) ==
  /\ Len(transaction) < MaxTx
  /\ Enter(p)
  /\ LET phone_norm == normalize_phone(phone)
         r == [NoReq EXCEPT !.op = "topup", !.phone = phone, !.src = phone_norm,
                            !.amount = amount]
         wal == find_one(wallet, phone_norm)
     IN  IF invalid_amount(amount)
         THEN Fail(p, r, "InvalidAmount", "begin")
         ELSE IF wal = NoDoc
         THEN Fail(p, r, "NotFound", "tp_find")
         ELSE Goto(p, [r EXCEPT !.w_src = wal], "tp_update")
  /\ UNCHANGED <<user, wallet, transaction, faults>>

topup_update(p) ==
  /\ pc[p] = "tp_update"
  /\ wallet' = update_set(wallet, req[p].w_src.id,
                          topup_new_balance(req[p].w_src, req[p].amount))
  /\ Goto(p, req[p], "tp_insert")
  /\ UNCHANGED <<user, transaction, base, entered, faults>>

\* topup_insert that keeps one ledger record per top-up, replacing the rest
topup_insert_replacing(p) ==
  /\ pc[p] = "tp_insert"
  /\ transaction' = <<Transaction(1, "topup", None, req[p].src, req[p].amount)>>
  /\ Finish(p, req[p], "ok", pc[p], topup_new_balance(req[p].w_src, req[p].amount), <<>>)
  /\ UNCHANGED <<user, wallet, base, entered, faults>>

topup_insert(p) ==
  /\ pc[p] = "tp_insert"
  /\ transaction' = create_document(transaction,
         Transaction(NextId(transaction), "topup", None, req[p].src, req[p].amount))
  /\ Finish(p, req[p], "ok", pc[p], topup_new_balance(req[p].w_src, req[p].amount), <<>>)
  /\ UNCHANGED <<user, wallet, base, entered, faults>>

\* ------------------------------------------------------------- transfer
\* insufficient_funds that lets the balance be overdrawn by one unit
insufficient_funds_off_by_one(w_src, amount) == w_src.balance + 1 < amount

insufficient_funds(w_src, amount) == w_src.balance < amount

transfer_find_src(p, from_phone, to_phone, amount) ==
  /\ Len(transaction) < MaxTx
  /\ Enter(p)
  /\ LET src == normalize_phone(from_phone)
         dst == normalize_phone(to_phone)
         r == [NoReq EXCEPT !.op = "transfer", !.phone = from_phone, !.to_phone = to_phone,
                            !.src = src, !.dst = dst, !.amount = amount]
     IN  IF src = dst
         THEN Fail(p, r, "SameAccount", "begin")
         ELSE IF invalid_amount(amount)
         THEN Fail(p, r, "InvalidAmount", "begin")
         ELSE Goto(p, [r EXCEPT !.w_src = find_one(wallet, src)], "tr_find_dst")
  /\ UNCHANGED <<user, wallet, transaction, faults>>

transfer_find_dst(p) ==
  /\ pc[p] = "tr_find_dst"
  /\ LET w_src == req[p].w_src
         w_dst == find_one(wallet, req[p].dst)
         r == [req[p] EXCEPT !.w_dst = w_dst]
     IN  IF w_src = NoDoc \/ w_dst = NoDoc
         THEN Fail(p, r, "NotFound", pc[p])
         ELSE IF insufficient_funds(w_src, req[p].amount)
         THEN Fail(p, r, "InsufficientFunds", pc[p])
         ELSE Goto(p, r, "tr_debit")
  /\ UNCHANGED <<user, wallet, transaction, base, entered, faults>>

transfer_debit(p) ==
  /\ pc[p] = "tr_debit"
  /\ wallet' = update_inc(wallet, req[p].w_src.id, -req[p].amount)
  /\ Goto(p, req[p], "tr_credit")
  /\ UNCHANGED <<user, transaction, base, entered, faults>>

transfer_credit(p) ==
  /\ pc[p] = "tr_credit"
  /\ wallet' = update_inc(wallet, req[p].w_dst.id, req[p].amount)
  /\ Goto(p, req[p], "tr_insert")
  /\ UNCHANGED <<user, transaction, base, entered, faults>>

transfer_insert(p) ==
  /\ pc[p] = "tr_insert"
  /\ transaction' = create_document(transaction,
         Transaction(NextId(transaction), "transfer", req[p].src, req[p].dst, req[p].amount))
  /\ Finish(p, req[p], "ok", pc[p], 0, <<>>)
  /\ UNCHANGED <<user, wallet, base, entered, faults>>

\* ------------------------------------------------------------ get_wallet
get_wallet(p, phone) ==
  /\ Enter(p)
  /\ LET r == [NoReq EXCEPT !.op = "get_wallet", !.phone = phone,
                            !.src = normalize_phone(phone)]
         wal == find_one(wallet, r.src)
     IN  IF wal = NoDoc THEN Fail(p, r, "NotFound", "gw_find")
         ELSE Finish(p, r, "ok", "gw_find", wal.balance,
                     <<[phone |-> wal.phone, currency |-> wal.currency]>>)
  /\ UNCHANGED <<user, wallet, transaction, faults>>

\* ----------------------------------------------------- list_transactions
\* find({"$or": [{"from_phone": p}, {"to_phone": p}]})
tx_matches(t, phone) == t.from_phone = phone \/ t.to_phone = phone

RECURSIVE filter_tx(_, _)
filter_tx(coll, phone) ==
  IF coll = <<>> THEN <<>>
  ELSE IF tx_matches(Head(coll), phone)
       THEN <<Head(coll)>> \o filter_tx(Tail(coll), phone)
       ELSE filter_tx(Tail(coll), phone)

\* .sort("created_at", -1): each record goes before the first record that
\* is not newer than it.
RECURSIVE insert_desc(_, _)
insert_desc(t, sorted) ==
  IF sorted = <<>> THEN <<t>>
  ELSE IF Head(sorted).created_at > t.created_at
       THEN <<Head(sorted)>> \o insert_desc(t, Tail(sorted))
       ELSE <<t>> \o sorted

RECURSIVE sort_desc(_)
sort_desc(coll) ==
  IF coll = <<>> THEN <<>> ELSE insert_desc(Head(coll), sort_desc(Tail(coll)))

\* .limit(n); a limit of 0 is no limit
take(coll, n) == IF n = 0 \/ Len(coll) <= n THEN coll ELSE SubSeq(coll, 1, n)

summary(t) ==
  [type |-> t.type, from_phone |-> t.from_phone, to_phone |-> t.to_phone,
   amount |-> t.amount, currency |-> "KES", status |-> t.status,
   created_at |-> t.created_at]

query(coll, phone, limit) ==
  LET txs == take(sort_desc(filter_tx(coll, phone)), limit)
  IN  [i \in DOMAIN txs |-> summary(txs[i])]

list_transactions(p, phone, limit) ==
  /\ Enter(p)
  /\ LET r == [NoReq EXCEPT !.op = "list_transactions", !.phone = phone,
                            !.src = normalize_phone(phone), !.limit = limit]
     IN  Finish(p, r, "ok", "lt_find", 0, query(transaction, r.src, limit))
  /\ UNCHANGED <<user, wallet, transaction, faults>>

\* ------------------------------------------------------- store failure
\* A store call of a request in flight raises (the store is unavailable):
\* the exception leaves the handler and nothing the handler has already
\* written is undone.
store_fail(p) ==
  /\ ~Free(p)
  /\ faults < MaxFaults
  /\ faults' = faults + 1
  /\ Fail(p, req[p], "StoreUnavailable", pc[p])
  /\ UNCHANGED <<user, wallet, transaction, base, entered>>

\* ------------------------------------------------------- specifications
Write(p, phones, amounts) ==
  \/ \E phone \in phones : register_find(p, phone)
  \/ register_create_user(p)
  \/ register_create_wallet(p)
  \/ \E phone \in phones, amount \in amounts : topup_find(p, phone, amount)
  \/ topup_update(p)
  \/ topup_insert(p)
  \/ \E f \in phones, t \in phones, amount \in amounts : transfer_find_src(p, f, t, amount)
  \/ transfer_find_dst(p)
  \/ transfer_debit(p)
  \/ transfer_credit(p)
  \/ transfer_insert(p)

Read(p, phones) ==
  \/ \E phone \in phones : get_wallet(p, phone)
  \/ \E phone \in phones, limit \in Limits : list_transactions(p, phone, limit)

Next ==
  \E p \in Procs : Write(p, ConcurrentPhones, ConcurrentAmounts) \/ Read(p, ConcurrentPhones)

Spec == Init /\ [][Next]_vars

\* One request at a time: a request enters only when no other is in flight,
\* so every request takes the lowest slot.
Only == CHOOSE p \in Procs : \A q \in Procs : p <= q

SeqNext == Write(Only, RawPhones, Amounts) \/ Read(Only, RawPhones)

SeqSpec == Init /\ [][SeqNext]_vars

\* One request at a time, over a store whose calls may fail.
FaultNext == Write(Only, RawPhones, Amounts) \/ Read(Only, RawPhones) \/ store_fail(Only)

FaultSpec == Init /\ [][FaultNext]_vars

\* ------------------------------------------- normalize_phone on its own
\* Phones as typed: a subscriber number written in international form, in
\* local trunk form, in bare international form or in a form no rule
\* matches, with whitespace before it, after it and after its fourth
\* character.
Intl == <<"+","2","5","4">>

Bare == <<"2","5","4">>

Numbers == {<<"7","1","2","3","4","5","6","7","8">>, <<"7","2","2","0","0","0","0","0","0">>}

Forms == {"intl", "local", "bare", "subscriber", "short_local", "short_bare", "long_bare"}

Written(number, form) ==
  CASE form = "intl"        -> Intl \o number
    [] form = "local"       -> <<"0">> \o number
    [] form = "bare"        -> Bare \o number
    [] form = "subscriber"  -> number
    [] form = "short_local" -> <<"0">> \o SubSeq(number, 1, Len(number) - 1)
    [] form = "short_bare"  -> Bare \o SubSeq(number, 1, 2)
    [] form = "long_bare"   -> Bare \o number \o <<"9">>

Leading == {<<>>, <<" ">>, <<"\t">>}

Trailing == {<<>>, <<" ", "\n">>}

Embedded == {<<>>, <<" ">>, <<"\t">>}

Typed(s, lead, mid, trail) ==
  lead \o SubSeq(s, 1, Len(Intl)) \o mid \o SubSeq(s, Len(Intl) + 1, Len(s)) \o trail

NormInputs ==
  {[NoNorm EXCEPT !.number = n, !.form = f, !.mid = mid,
                  !.spaces_only = (lead # <<"\t">> /\ mid # <<"\t">> /\ trail = <<>>),
                  !.raw = Typed(Written(n, f), lead, mid, trail)] :
     n \in Numbers, f \in Forms, lead \in Leading, mid \in Embedded, trail \in Trailing}

NormInit == EmptyStore /\ norm \in NormInputs

normalize_first ==
  /\ norm.step = 0
  /\ norm' = [norm EXCEPT !.once = normalize_phone(norm.raw), !.step = 1]
  /\ UNCHANGED <<user, wallet, transaction, pc, req, last, base, entered, faults, completed>>

normalize_again ==
  /\ norm.step = 1
  /\ norm' = [norm EXCEPT !.twice = normalize_phone(norm.once), !.step = 2]
  /\ UNCHANGED <<user, wallet, transaction, pc, req, last, base, entered, faults, completed>>

NormNext == normalize_first \/ normalize_again

NormSpec == NormInit /\ [][NormNext]_vars

\* ---------------------------------------------------------- properties
Keys == {normalize_phone(phone) : phone \in RawPhones}

HasWallet(coll, phone) == find_one(coll, phone) # NoDoc

Balance(coll, phone) == find_one(coll, phone).balance

WalletsOf(phone) == {i \in DOMAIN wallet : wallet[i].phone = phone}

\* The request that has just returned left the wallets and the ledger as they
\* were when it entered.
NothingChanged ==
  /\ wallet = base.wallet
  /\ Len(user) = base.nuser
  /\ Len(transaction) = base.ntx

\* C1: in every reachable state, under any interleaving of register, top-up
\* and transfer requests, every wallet's balance is >= 0.
C1_BalanceNonNegative == \A i \in DOMAIN wallet : wallet[i].balance >= 0

\* C2: when two top-ups of amounts A and B, overlapping in time, have both
\* returned, the wallet's balance is its balance before them plus A plus B.
C2_NoLostUpdate ==
  \A phone \in Keys :
    ( /\ Quiet
      /\ HasWallet(base.wallet, phone)
      /\ Len(transaction) = base.ntx + 2
      /\ \A i \in {base.ntx + 1, base.ntx + 2} :
            transaction[i].type = "topup" /\ transaction[i].to_phone = phone )
    => Balance(wallet, phone) = Balance(base.wallet, phone)
                                + transaction[base.ntx + 1].amount
                                + transaction[base.ntx + 2].amount

\* C3: while a transfer has debited its source and not yet credited its
\* destination, no other request takes a step: the next step is that
\* transfer's credit.
C3_TransferAtomic ==
  [][\A p \in Procs : pc[p] = "tr_credit" => pc'[p] = "tr_insert"]_vars

\* C4: a transfer of amount > 0 between distinct registered phones whose
\* source holds at least the amount succeeds, takes the amount from the
\* source, adds it to the destination and conserves the sum of the two.
C4_TransferMovesAmount ==
  LET r == last.req IN
    ( /\ r.op = "transfer"
      /\ r.amount > 0
      /\ r.src # r.dst
      /\ HasWallet(base.wallet, r.src)
      /\ HasWallet(base.wallet, r.dst)
      /\ Balance(base.wallet, r.src) >= r.amount )
    => /\ last.status = "ok"
       /\ Balance(wallet, r.src) = Balance(base.wallet, r.src) - r.amount
       /\ Balance(wallet, r.dst) = Balance(base.wallet, r.dst) + r.amount
       /\ Balance(wallet, r.src) + Balance(wallet, r.dst)
            = Balance(base.wallet, r.src) + Balance(base.wallet, r.dst)

C4_Witness ==
  /\ last.req.op = "transfer"
  /\ last.status = "ok"
  /\ last.req.amount = 1
  /\ Balance(base.wallet, last.req.src) = 2
  /\ Balance(wallet, last.req.src) = 1
  /\ Balance(wallet, last.req.dst) = 1

\* C5: a transfer between two distinct registered wallets whose amount
\* exceeds the source balance fails with InsufficientFunds, leaves both
\* balances unchanged and appends no ledger record.
C5_InsufficientFunds ==
  LET r == last.req IN
    ( /\ r.op = "transfer"
      /\ r.src # r.dst
      /\ HasWallet(base.wallet, r.src)
      /\ HasWallet(base.wallet, r.dst)
      /\ r.amount > Balance(base.wallet, r.src) )
    => /\ last.status = "InsufficientFunds"
       /\ Balance(wallet, r.src) = Balance(base.wallet, r.src)
       /\ Balance(wallet, r.dst) = Balance(base.wallet, r.dst)
       /\ Len(transaction) = base.ntx

C5_Witness ==
  /\ last.req.op = "transfer"
  /\ last.status = "InsufficientFunds"
  /\ last.req.amount = 2
  /\ Balance(wallet, last.req.src) = 1

\* C6: a top-up of amount > 0 on an existing wallet succeeds, leaves the
\* wallet with its prior balance plus the amount, returns that balance, and
\* appends exactly one ledger record: kind top-up, destination the
\* normalized phone, no source phone, status success.
C6_TopupAdds ==
  LET r == last.req IN
    ( /\ r.op = "topup"
      /\ r.amount > 0
      /\ HasWallet(base.wallet, r.src) )
    => /\ last.status = "ok"
       /\ Balance(wallet, r.src) = Balance(base.wallet, r.src) + r.amount
       /\ last.balance = Balance(wallet, r.src)
       /\ Len(transaction) = base.ntx + 1
       /\ LET t == transaction[Len(transaction)]
          IN  /\ t.type = "topup"
              /\ t.to_phone = r.src
              /\ t.from_phone = None
              /\ t.status = "success"
              /\ t.amount = r.amount

C6_Witness ==
  /\ last.req.op = "topup"
  /\ last.status = "ok"
  /\ Balance(base.wallet, last.req.src) > 0
  /\ last.balance = Balance(base.wallet, last.req.src) + last.req.amount

\* C7: after any interleaving of register requests whose phones normalize
\* to one key, the wallet collection holds at most one wallet for that key.
C7_OneWalletPerKey == \A phone \in Keys : Cardinality(WalletsOf(phone)) <= 1

\* C8: a register request issued after a register for the same canonical
\* phone has completed fails with DuplicateKey, creates neither a user nor a
\* wallet, and leaves the existing wallet's balance unchanged.
C8_DuplicateRejected ==
  LET r == last.req IN
    (r.op = "register" /\ HasWallet(base.wallet, r.src))
    => /\ last.status = "DuplicateKey"
       /\ Len(user) = base.nuser
       /\ wallet = base.wallet

C8_Witness ==
  /\ last.req.op = "register"
  /\ last.status = "DuplicateKey"
  /\ Balance(wallet, last.req.src) > 0

\* C9: when a transfer's credit cannot complete after its debit was applied,
\* the debit is reversed before the error is returned: the source balance is
\* what it was before the transfer and no ledger record is appended.
C9_DebitReversed ==
  (last.req.op = "transfer" /\ last.status = "StoreUnavailable" /\ last.at = "tr_credit")
  => /\ Balance(wallet, last.req.src) = Balance(base.wallet, last.req.src)
     /\ Len(transaction) = base.ntx

\* C10: rejected money movements are rejected in order and change nothing.
\* Top-up: amount <= 0 is InvalidAmount before any lookup, else an unknown
\* phone is NotFound.  Transfer: equal normalized phones are SameAccount,
\* else amount <= 0 is InvalidAmount, else a missing source or destination
\* wallet is NotFound.
C10_RejectionOrder ==
  LET r == last.req IN
    /\ (r.op = "topup" /\ r.amount <= 0)
         => last.status = "InvalidAmount" /\ r.w_src = NoDoc /\ NothingChanged
    /\ (r.op = "topup" /\ r.amount > 0 /\ ~HasWallet(base.wallet, r.src))
         => last.status = "NotFound" /\ NothingChanged
    /\ (r.op = "transfer" /\ r.src = r.dst)
         => last.status = "SameAccount" /\ NothingChanged
    /\ (r.op = "transfer" /\ r.src # r.dst /\ r.amount <= 0)
         => last.status = "InvalidAmount" /\ NothingChanged
    /\ (r.op = "transfer" /\ r.src # r.dst /\ r.amount > 0
          /\ (~HasWallet(base.wallet, r.src) \/ ~HasWallet(base.wallet, r.dst)))
         => last.status = "NotFound" /\ NothingChanged

C10_Witness ==
  /\ last.req.op = "transfer"
  /\ last.status = "SameAccount"
  /\ last.req.amount <= 0
  /\ ~HasWallet(wallet, last.req.src)

\* C11: a transfer that succeeds appends exactly one ledger record, of kind
\* transfer, from the normalized from-phone to the normalized to-phone, of
\* the amount moved, with status success; and the ledger holds as many
\* records as top-ups and transfers have completed successfully.
C11_TransferRecorded ==
  /\ Len(transaction) = completed
  /\ (last.req.op = "transfer" /\ last.status = "ok")
       => /\ Len(transaction) = base.ntx + 1
          /\ LET t == transaction[Len(transaction)]
             IN  /\ t.type = "transfer"
                 /\ t.from_phone = last.req.src
                 /\ t.to_phone = last.req.dst
                 /\ t.amount = last.req.amount
                 /\ t.status = "success"

C11_Witness ==
  /\ last.req.op = "transfer"
  /\ last.status = "ok"
  /\ last.req.amount > 0
  /\ completed = 2
  /\ transaction[2].from_phone = last.req.src
  /\ transaction[2].to_phone = last.req.dst

\* C12: the ledger is append-only: no step of register, top-up, transfer,
\* get_wallet or list_transactions modifies or removes a record, so the
\* ledger after a step extends the ledger before it.
C12_AppendOnly ==
  [][/\ Len(transaction') >= Len(transaction)
     /\ SubSeq(transaction', 1, Len(transaction)) = transaction]_vars

C12_Witness ==
  /\ Len(transaction) = 2
  /\ transaction[1].type = "topup"
  /\ transaction[2].type = "transfer"
  /\ last.req.op = "list_transactions"
  /\ Len(last.out) = 2

\* C13: normalizing twice equals normalizing once, for every phone typed in
\* international, local trunk or bare international form.
C13_Idempotent ==
  (norm.step = 2 /\ norm.form \in {"intl", "local", "bare"}) => norm.twice = norm.once

C13_Witness ==
  /\ norm.step = 2
  /\ norm.form = "local"
  /\ norm.once = Intl \o norm.number
  /\ norm.once # norm.raw
  /\ norm.twice = norm.once

\* The typed phone of norm without its surrounding whitespace and without its
\* space characters, built from the way it was typed.
Cleaned ==
  Typed(Written(norm.number, norm.form), <<>>,
        IF norm.mid = <<" ">> THEN <<>> ELSE norm.mid, <<>>)

matches_no_rule(p) ==
  /\ ~startswith(p, Intl)
  /\ ~(startswith(p, <<"0", "7">>) /\ Len(p) = 10)
  /\ ~(startswith(p, Bare) /\ Len(p) = 12)

\* C17 as stated: a phone in international form and a phone matching no rule
\* are returned as the trimmed input, interior characters preserved.
C17_TrimmedOnly ==
  (norm.step >= 1 /\ (norm.form = "intl" \/ matches_no_rule(Cleaned)))
    => norm.once = strip(norm.raw)

\* C17: the rules apply to the phone without its surrounding whitespace and
\* without any space character; a phone that then starts with +254, or then
\* matches no rule, is returned in that cleaned form.
C17_CleanedReturned ==
  (norm.step >= 1 /\ (norm.form = "intl" \/ matches_no_rule(Cleaned)))
    => norm.once = Cleaned

C17_Witness ==
  /\ norm.step >= 1
  /\ norm.form = "short_bare"
  /\ norm.mid = <<" ">>
  /\ norm.raw # Cleaned
  /\ strip(norm.raw) # Cleaned
  /\ norm.once = Cleaned

FormsOfA == {PhoneA_local, PhoneA_intl, PhoneA_bare}

KeyA == <<"+","2","5","4","7","1","2","3","4","5","6","7","8">>

\* C14: a number written as 07XXXXXXXX, +2547XXXXXXXX (with surrounding and
\* embedded spaces) or 2547XXXXXXXX is looked up under one key; once a wallet
\* is registered for that key, a request naming the number in any of the
\* forms finds that wallet (top-up, transfer from it, transfer to it,
\* get_wallet, list_transactions), and a registration in any of the forms is
\* rejected with DuplicateKey.
C14_OneCanonicalKey ==
  LET r == last.req
      registered == HasWallet(base.wallet, KeyA)
  IN  /\ r.phone \in FormsOfA => r.src = KeyA
      /\ r.to_phone \in FormsOfA => r.dst = KeyA
      /\ (r.phone \in FormsOfA /\ registered) =>
           /\ r.op = "register" =>
                last.status = "DuplicateKey" /\ wallet = base.wallet
           /\ (r.op = "topup" /\ r.amount > 0) =>
                /\ last.status = "ok"
                /\ Balance(wallet, KeyA) = Balance(base.wallet, KeyA) + r.amount
           /\ r.op = "get_wallet" =>
                /\ last.status = "ok"
                /\ last.balance = Balance(base.wallet, KeyA)
                /\ last.out[1].phone = KeyA
           /\ r.op = "list_transactions" =>
                /\ \A i \in DOMAIN last.out :
                     last.out[i].from_phone = KeyA \/ last.out[i].to_phone = KeyA
                /\ (\E i \in DOMAIN transaction : transaction[i].to_phone = KeyA)
                     => last.out # <<>>
           /\ ( /\ r.op = "transfer"
                /\ r.dst # KeyA
                /\ HasWallet(base.wallet, r.dst)
                /\ r.amount > 0
                /\ r.amount <= Balance(base.wallet, KeyA) ) =>
                /\ last.status = "ok"
                /\ Balance(wallet, KeyA) = Balance(base.wallet, KeyA) - r.amount
      /\ ( /\ r.op = "transfer"
           /\ r.to_phone \in FormsOfA
           /\ registered
           /\ r.src # KeyA
           /\ HasWallet(base.wallet, r.src)
           /\ r.amount > 0
           /\ r.amount <= Balance(base.wallet, r.src) ) =>
           /\ last.status = "ok"
           /\ Balance(wallet, KeyA) = Balance(base.wallet, KeyA) + r.amount

C14_Witness ==
  /\ last.req.op = "transfer"
  /\ last.req.phone = PhoneA_intl
  /\ last.status = "ok"
  /\ transaction[1].type = "topup"
  /\ transaction[1].to_phone = last.req.src
  /\ Balance(wallet, KeyA) < Balance(base.wallet, KeyA)

\* C15: every step keeps every existing wallet (same id, phone and currency);
\* a step changes an existing wallet's balance only when it is the update of
\* a top-up or the debit or credit of a transfer, so register, get_wallet and
\* list_transactions change no balance; a step adds a wallet only when it is
\* the successful return of a registration, and the added wallet is for the
\* registered key with balance 0 and currency KES.
C15_WalletFrame ==
  [][/\ Len(wallet') >= Len(wallet)
     /\ \A i \in DOMAIN wallet :
          /\ wallet'[i].id = wallet[i].id
          /\ wallet'[i].phone = wallet[i].phone
          /\ wallet'[i].currency = wallet[i].currency
          /\ wallet'[i].balance # wallet[i].balance =>
               \E p \in Procs :
                 /\ req[p].op \in {"topup", "transfer"}
                 /\ pc[p] \in {"tp_update", "tr_debit", "tr_credit"}
                 /\ pc'[p] # pc[p]
     /\ Len(wallet') > Len(wallet) =>
          /\ Len(wallet') = Len(wallet) + 1
          /\ last'.req.op = "register"
          /\ last'.status = "ok"
          /\ LET w == wallet'[Len(wallet')]
             IN  /\ w.phone = last'.req.src
                 /\ w.balance = 0
                 /\ w.currency = "KES"
     /\ (last' # last /\ last'.req.op \in {"register", "get_wallet", "list_transactions"}) =>
          \A i \in DOMAIN wallet : wallet'[i].balance = wallet[i].balance]_vars

C15_Witness ==
  /\ last.req.op = "register"
  /\ last.status = "ok"
  /\ Len(wallet) = 2
  /\ wallet[1].balance = 2
  /\ wallet[2].phone = last.req.src
  /\ wallet[2].balance = 0
  /\ wallet[2].currency = "KES"

Matching(coll, phone) == {j \in DOMAIN coll : tx_matches(coll[j], phone)}

Smaller(a, b) == IF a <= b THEN a ELSE b

\* C16: a list_transactions answer holds only ledger records naming the
\* normalized phone as source or destination, newest first, the newest
\* min(limit, number of such records) of them, so at most limit records; the
\* same query repeated with no append in between gives the same answer.
C16_ListBounded ==
  [][last'.req.op = "list_transactions" =>
       LET out == last'.out
           key == last'.req.src
           shown == {j \in Matching(transaction', key) :
                       \E i \in DOMAIN out : out[i] = summary(transaction'[j])}
       IN  /\ key = normalize_phone(last'.req.phone)
           /\ \A i \in DOMAIN out :
                \E j \in shown : out[i] = summary(transaction'[j])
           /\ \A i, k \in DOMAIN out : i < k => out[i].created_at > out[k].created_at
           /\ \A j \in Matching(transaction', key) \ shown :
                \A k \in shown : transaction'[j].created_at < transaction'[k].created_at
           /\ Len(out) = Smaller(last'.req.limit, Cardinality(Matching(transaction', key)))
           /\ Len(out) <= last'.req.limit
           /\ ( /\ last.req.op = "list_transactions"
                /\ last.req.src = key
                /\ last.req.limit = last'.req.limit
                /\ transaction' = transaction ) => out = last.out]_vars

RECURSIVE SumBalances(_)
SumBalances(coll) ==
  IF coll = <<>> THEN 0 ELSE Head(coll).balance + SumBalances(Tail(coll))

\* What the ledger coll says was added to the balance of phone.
RECURSIVE LedgerNet(_, _)
LedgerNet(coll, phone) ==
  IF coll = <<>> THEN 0
  ELSE LET t == Head(coll)
       IN  (IF t.to_phone = phone THEN t.amount ELSE 0)
           - (IF t.from_phone = phone THEN t.amount ELSE 0)
           + LedgerNet(Tail(coll), phone)

RECURSIVE TopupTotal(_)
TopupTotal(coll) ==
  IF coll = <<>> THEN 0
  ELSE (IF Head(coll).type = "topup" THEN Head(coll).amount ELSE 0)
       + TopupTotal(Tail(coll))

\* C18: whenever no request is in flight, the wallet balances add up to the
\* amounts of the top-up ledger records, and the balance of the wallet each
\* key resolves to is its top-ups plus the transfers it received minus the
\* transfers it sent, as the ledger records them.
C18_LedgerConsistent ==
  Quiet => /\ SumBalances(wallet) = TopupTotal(transaction)
           /\ \A phone \in Keys :
                HasWallet(wallet, phone) =>
                  Balance(wallet, phone) = LedgerNet(transaction, phone)
====
